---- MODULE Spec2Model ----
(***************************************************************************)
(* A model of lsm_engine: the sorted segment (sst.rs), the k-way merger    *)
(* (sst.rs), the memtable (memtable.rs) and the engine (lib.rs).           *)
(*                                                                         *)
(* Keys are the integers 1..NumKeys and stand for the strings "k1", "k2",  *)
(* ...: for at most nine keys the byte order of the strings is the order   *)
(* of the integers.  User values are positive integers and stand for      *)
(* "v1", "v2", ...; TOMBSTONE_VALUE stands for the 20 character sentinel.  *)
(* The code never looks into a value except to compare it with the         *)
(* sentinel, so every write of a run carries a value no earlier write      *)
(* carried: an old value read back in place of a new one is then always    *)
(* told apart.                                                             *)
(* An Option<T> is a sequence: <<>> is None and <<x>> is Some(x).          *)
(***************************************************************************)
EXTENDS Integers, Sequences, FiniteSets, TLC

\* ---------------------------------------------------------------- bounds
NumKeys == 3
MaxOps == 5
MaxWalOps == 4
MaxFaultOps == 4
MaxReplayOps == 3
MaxLogLen == 2
MaxCapacity == 2
MaxSegmentSize == 2
MaxSparseOffset == 2
MaxSsts == 3
MaxSstLen == 2

Keys == 1..NumKeys

\* lib.rs: TOMBSTONE_VALUE, a fixed 20 character alphanumeric string.
TOMBSTONE_VALUE == 0

\* std::io::BufReader::new: the capacity of the buffer, in bytes.
BufCapacity == 8192

\* The one element of a one-element set.  `The({ f(x) : x \in {e} })` is
\* `LET x == e IN f(x)` with e computed once.
The(S) == CHOOSE x \in S : TRUE

None == <<>>
Some(x) == <<x>>
IsSome(o) == o # <<>>
Unwrap(o) == o[1]

\* ------------------------------------------------------------ record codec
\* One record is one line {"key":"..","value":".."}\n: 22 bytes around the
\* two strings.
KeyLen(key) == 2
ValueLen(value) ==
    IF value = TOMBSTONE_VALUE THEN 20 ELSE IF value < 10 THEN 2 ELSE 3
EncodedLen(kv) ==
    IF kv.key = 0 THEN 0 - kv.value ELSE 22 + KeyLen(kv.key) + ValueLen(kv.value)

\* n bytes of a file that are no record: what is left of a record another
\* write ran into, or the gap a write past the end of the file leaves.
Torn(n) == [key |-> 0, value |-> 0 - n]

KVPair(k, v) == [key |-> k, value |-> v]

RECURSIVE FileLen(_)
\* The length in bytes of a file holding the records recs.
FileLen(recs) ==
    IF recs = <<>> THEN 0
    ELSE EncodedLen(recs[Len(recs)]) + FileLen(SubSeq(recs, 1, Len(recs) - 1))

\* The byte offset at which the i-th record (1-based) of the file starts.
OffsetOf(recs, i) == FileLen(SubSeq(recs, 1, i - 1))

\* The records a reader positioned at byte pos decodes up to the end of the file
\* (pos is a record boundary or at/after the end of the file).
RecordsFrom(recs, pos) ==
    LET first == { i \in 1..Len(recs) : OffsetOf(recs, i) >= pos }
    IN  IF first = {} THEN <<>>
        ELSE SubSeq(recs, CHOOSE i \in first : \A j \in first : i <= j, Len(recs))

\* The file after a write of kv at byte pos, as File::write does it: the bytes
\* from pos on are replaced, and the file grows if they reach past its end.
write_at(recs, pos, kv) ==
    IF pos = FileLen(recs) THEN Append(recs, kv)
    ELSE LET end == pos + EncodedLen(kv)
             before == { i \in 1..Len(recs) : OffsetOf(recs, i + 1) <= pos }
             after == { i \in 1..Len(recs) : OffsetOf(recs, i) >= end }
             cut == { i \in 1..Len(recs) : OffsetOf(recs, i) < pos
                                            /\ OffsetOf(recs, i + 1) > pos }
             run_into == { i \in 1..Len(recs) : OffsetOf(recs, i) < end
                                                 /\ OffsetOf(recs, i + 1) > end }
         IN  SubSeq(recs, 1, Cardinality(before))
             \o (IF cut # {} THEN <<Torn(pos - OffsetOf(recs, The(cut)))>> ELSE <<>>)
             \o (IF pos > FileLen(recs) THEN <<Torn(pos - FileLen(recs))>> ELSE <<>>)
             \o <<kv>>
             \o (IF run_into # {}
                 THEN <<Torn(OffsetOf(recs, The(run_into) + 1) - end)>> ELSE <<>>)
             \o SubSeq(recs, Len(recs) - Cardinality(after) + 1, Len(recs))

\* ----------------------------------------------------------------- Segment
\* struct Segment { fd, size, previous_key, created_at }: fd is the file's
\* records (recs) and the position of the handle (pos).
Segment_with_file(created) ==
    [recs |-> <<>>, pos |-> 0, size |-> 0, previous_key |-> None, created_at |-> created]

\* validate rejecting a key equal to the previous one as well.
validate_strict(seg, key) ==
    ~ (IsSome(seg.previous_key) /\ Unwrap(seg.previous_key) >= key)

\* Segment::validate: the error iff previous_key is Some(prev) and prev > key.
validate(seg, key) ==
    ~ (IsSome(seg.previous_key) /\ Unwrap(seg.previous_key) > key)

\* Segment::write: [ok, seg, offset]; on UnsortedWrite the segment is untouched.
\* The record goes to the handle's position.
Segment_write(seg, key, value) ==
    IF ~ validate(seg, key)
    THEN [ok |-> FALSE, seg |-> seg, offset |-> 0,
          err |-> [previous |-> Unwrap(seg.previous_key), current |-> key]]
    ELSE LET kv == KVPair(key, value)
             current_offset == seg.pos
         IN  [ok |-> TRUE,
              seg |-> [seg EXCEPT !.previous_key = Some(key),
                                  !.recs = write_at(seg.recs, current_offset, kv),
                                  !.pos = current_offset + EncodedLen(kv),
                                  !.size = seg.size + 1],
              offset |-> current_offset,
              err |-> [previous |-> key, current |-> key]]

\* Segment::seek and Segment::tell
seek(seg, pos) == [seg EXCEPT !.pos = pos]
tell(seg) == seg.pos

\* Segment::read() asked for one record, `.read().take(1).last()`: [seg, item].
\* The BufReader fills its buffer from the handle's position, which moves on by
\* what was read: up to BufCapacity bytes, less at the end of the file.
read_one(seg) ==
    LET rs == RecordsFrom(seg.recs, seg.pos)
        len == FileLen(seg.recs)
    IN  [seg |-> IF seg.pos >= len THEN seg
                 ELSE seek(seg, IF seg.pos + BufCapacity < len
                                THEN seg.pos + BufCapacity ELSE len),
         item |-> IF rs = <<>> THEN None ELSE Some(rs[1])]

\* Segment::at: [seg, value], the value of the record at pos; the position is
\* put back.
Segment_at(seg, pos) ==
    LET current == tell(seg)
        r == read_one(seek(seg, pos))
    IN  [seg |-> seek(r.seg, current),
         value |-> IF IsSome(r.item) THEN Some(Unwrap(r.item).value) ELSE None]

\* Segment::peek: [seg, value], the record at the position; the position is
\* put back.
Segment_peek(seg) ==
    LET current == tell(seg)
        r == read_one(seg)
    IN  [seg |-> seek(r.seg, current), value |-> r.item]

\* search_from without its seek to offset: the scan starts at the first record.
search_from_unseeked(seg, key, offset) ==
    LET rs == RecordsFrom(seg.recs, 0)
        hits == { i \in 1..Len(rs) : rs[i].key >= key }
    IN  IF hits = {} THEN None
        ELSE LET i == CHOOSE i \in hits : \A j \in hits : i <= j
             IN  IF rs[i].key = key THEN Some(rs[i].value) ELSE None

\* Segment::search_from: the first record at or after offset whose key is >= key,
\* kept only if its key is key; the position is restored.
search_from(seg, key, offset) ==
    LET rs == RecordsFrom(seg.recs, offset)
        hits == { i \in 1..Len(rs) : rs[i].key >= key }
    IN  IF hits = {} THEN None
        ELSE LET i == CHOOSE i \in hits : \A j \in hits : i <= j
             IN  IF rs[i].key = key THEN Some(rs[i].value) ELSE None

\* Segment::search_from_start
search_from_start(seg, key) == search_from(seg, key, 0)

\* search_from going back to offset, not to where the handle was.
Segment_search_from_reseek(seg, key, offset) ==
    [seg |-> seek(read_one(seek(seg, offset)).seg, offset),
     value |-> search_from(seg, key, offset)]

\* Segment::search_from with the handle: [seg, value].  The scan moves the
\* position as a read does; the last seek puts it back.
Segment_search_from(seg, key, offset) ==
    LET current_pos == tell(seg)
    IN  [seg |-> seek(read_one(seek(seg, offset)).seg, current_pos),
         value |-> search_from(seg, key, offset)]

\* ------------------------------------------------------------------ merger
\* impl Ord for MetaKey: by key ascending, then by timestamp descending.
\* TRUE iff a sorts before b or equal to it.
MetaKey_le(a, b) ==
    \/ a.key < b.key
    \/ a.key = b.key /\ a.timestamp >= b.timestamp

\* BinaryHeap<MetaKey, MinComparator>::pop: a least element of the heap.  Two
\* entries of one heap come from different segments, whose timestamps differ,
\* so the least element is unique.
heap_pop(heap) == CHOOSE m \in heap : \A o \in heap : MetaKey_le(m, o)

\* SstMerger::new: the heap holds the first record of every non-empty input;
\* iters[i] is the number of records already taken from input i.
SstMerger_new(segments) ==
    [inputs |-> [i \in 1..Len(segments) |-> segments[i].recs],
     heap |-> { [key |-> segments[i].recs[1].key,
                 value |-> segments[i].recs[1].value,
                 timestamp |-> segments[i].created_at,
                 which_segment |-> i - 1] :
                i \in { j \in 1..Len(segments) : segments[j].recs # <<>> } },
     iters |-> [i \in 1..Len(segments) |-> IF segments[i].recs # <<>> THEN 1 ELSE 0],
     previous_key |-> None]

\* The duplicate test of next never firing.
is_duplicate_never(meta_key, previous_key) == FALSE

\* SstMerger::next, `Some(meta_key.key.clone()) == self.previous_key`.
is_duplicate(meta_key, previous_key) == Some(meta_key.key) = previous_key

RECURSIVE SstMerger_next(_)
\* SstMerger::next: [merger, item].  A popped entry whose key is previous_key
\* is dropped by `continue`, before its source iterator is looked at: nothing
\* more is taken from that source.  Otherwise the source's next record, if it
\* has one, goes to the heap and the popped entry is the item.
SstMerger_next(m) ==
    IF m.heap = {} THEN [merger |-> m, item |-> None]
    ELSE LET meta_key == heap_pop(m.heap)
             rest == m.heap \ {meta_key}
             ix == meta_key.which_segment + 1
         IN  IF is_duplicate(meta_key, m.previous_key)
             THEN SstMerger_next([m EXCEPT !.heap = rest])
             ELSE IF m.iters[ix] < Len(m.inputs[ix])
             THEN LET next == m.inputs[ix][m.iters[ix] + 1]
                  IN  [merger |-> [m EXCEPT
                           !.heap = rest \cup {[key |-> next.key,
                                               value |-> next.value,
                                               timestamp |-> meta_key.timestamp,
                                               which_segment |-> meta_key.which_segment]},
                           !.iters[ix] = m.iters[ix] + 1,
                           !.previous_key = Some(meta_key.key)],
                       item |-> Some(KVPair(meta_key.key, meta_key.value))]
             ELSE [merger |-> [m EXCEPT !.heap = rest,
                                        !.previous_key = Some(meta_key.key)],
                   item |-> Some(KVPair(meta_key.key, meta_key.value))]

\* The roll-over test of merge one record late.
segment_full_late(segment, segment_size) == segment.size > segment_size

\* merge, `segment.size() == segment_size`: the segment being filled is sealed.
segment_full(segment, segment_size) == segment.size = segment_size

RECURSIVE merge_loop(_, _, _, _, _, _, _)
\* The for loop of merge and what follows it: res, the sealed segments; segment,
\* the one being filled; calls, the arguments of the callback so far, in call
\* order; now, the clock.  A failed Segment::write ends merge with the error.
merge_loop(merger, segment_size, res, segment, segment_count, calls, now) ==
    The({
        IF ~ IsSome(step.item)
        THEN [ok |-> TRUE,
              res |-> IF segment.size > 0 THEN Append(res, segment) ELSE res,
              calls |-> calls, now |-> now]
        ELSE LET kv == Unwrap(step.item)
                 roll == segment_full(segment, segment_size)
                 seg0 == IF roll THEN Segment_with_file(now + 1) ELSE segment
                 res0 == IF roll THEN Append(res, segment) ELSE res
                 count0 == IF roll THEN segment_count + 1 ELSE segment_count
                 now0 == IF roll THEN now + 1 ELSE now
             IN  The({
                 IF ~ w.ok
                 THEN [ok |-> FALSE, res |-> res0, calls |-> calls, now |-> now0]
                 ELSE merge_loop(step.merger, segment_size, res0, w.seg, count0,
                                 Append(calls, <<count0, w.offset, kv.key>>), now0)
                 : w \in {Segment_write(seg0, kv.key, kv.value)} })
        : step \in {SstMerger_next(merger)} })

\* sst::merge: one pass over segments; every segment it creates is stamped with
\* a later time than any before it.
merge(segments, segment_size, now) ==
    merge_loop(SstMerger_new(segments), segment_size, <<>>,
               Segment_with_file(now + 1), 0, <<>>, now + 1)

\* ---------------------------------------------------------------- Memtable
\* struct Memtable { kv_table, capacity }: kv_table is a function whose domain
\* is the set of keys it holds.
Memtable_new(capacity) == [kv_table |-> <<>>, capacity |-> capacity]

\* Memtable::insert: an upsert.
Memtable_insert(mt, key, value) ==
    [mt EXCEPT !.kv_table =
        [k \in (DOMAIN mt.kv_table) \cup {key} |->
            IF k = key THEN value ELSE mt.kv_table[k]]]

\* Memtable::get
Memtable_get(mt, key) ==
    IF key \in DOMAIN mt.kv_table THEN Some(mt.kv_table[key]) ELSE None

\* Memtable::contains, as write calls it: membership of the key.
Memtable_contains(mt, key) == key \in DOMAIN mt.kv_table

\* at_capacity true only once the table has outgrown the capacity.
at_capacity_above(mt) == Cardinality(DOMAIN mt.kv_table) > mt.capacity

\* Memtable::at_capacity: exact equality with the capacity.
at_capacity(mt) == Cardinality(DOMAIN mt.kv_table) = mt.capacity

RECURSIVE Ascending(_)
\* The iteration order of a BTreeMap over the key set S: ascending.
Ascending(S) ==
    IF S = {} THEN <<>>
    ELSE LET least == CHOOSE k \in S : \A o \in S : k <= o
         IN  <<least>> \o Ascending(S \ {least})

\* drain yielding the entries in descending key order.
drain_descending(mt) ==
    [memtable |-> [mt EXCEPT !.kv_table = <<>>],
     entries |-> [i \in 1..Cardinality(DOMAIN mt.kv_table) |->
                    KVPair(Ascending(DOMAIN mt.kv_table)
                               [Cardinality(DOMAIN mt.kv_table) + 1 - i],
                           mt.kv_table[Ascending(DOMAIN mt.kv_table)
                               [Cardinality(DOMAIN mt.kv_table) + 1 - i]])]]

\* Memtable::drain: the table is replaced by an empty one and its former
\* entries are yielded in ascending key order.
drain(mt) ==
    [memtable |-> [mt EXCEPT !.kv_table = <<>>],
     entries |-> [i \in 1..Cardinality(DOMAIN mt.kv_table) |->
                    KVPair(Ascending(DOMAIN mt.kv_table)[i],
                           mt.kv_table[Ascending(DOMAIN mt.kv_table)[i]])]]

\* ------------------------------------------------------------------ engine
\* The test of LSMEngine::new with its operands exchanged.
new_panics_swapped(inmemory_capacity, segment_size) == inmemory_capacity < segment_size

\* LSMEngine::new, `if segment_size < inmemory_capacity { panic!(..) }`.
new_panics(inmemory_capacity, segment_size) == segment_size < inmemory_capacity

\* LSMEngine::new, for segment_size >= inmemory_capacity (it panics otherwise).
LSMEngine_new(inmemory_capacity, segment_size, sparse_offset, wal) ==
    [memtable |-> Memtable_new(inmemory_capacity),
     segments |-> <<>>,
     sparse_memory_index |-> <<>>,
     segment_size |-> segment_size,
     sparse_offset |-> sparse_offset,
     wal |-> wal]

\* KVFileWriter::persist on a WAL: the record is appended to the file.
persist(file, kv) == Append(file, kv)

RECURSIVE write_all(_, _)
\* The loop of flush_memtable: every drained pair is written to the segment;
\* the first failed write ends it.
write_all(seg, entries) ==
    IF entries = <<>> THEN [ok |-> TRUE, seg |-> seg]
    ELSE The({ IF ~ w.ok THEN [ok |-> FALSE, seg |-> w.seg]
               ELSE write_all(w.seg, Tail(entries))
               : w \in {Segment_write(seg, entries[1].key, entries[1].value)} })

\* flush_memtable handing the memtable back when a write of the segment fails.
flush_memtable_keep_on_error(e, now, fail) ==
    The({ The({ [ok |-> w.ok,
                 memtable |-> IF w.ok THEN d.memtable ELSE e.memtable,
                 segment |-> w.seg, now |-> now + 1]
                : w \in {IF fail = "flush_write"
                         THEN [ok |-> FALSE, seg |-> Segment_with_file(now + 1)]
                         ELSE write_all(Segment_with_file(now + 1), d.entries)} })
          : d \in {drain(e.memtable)} })

\* LSMEngine::flush_memtable: [ok, memtable, segment, now].  The memtable is
\* drained whether or not the writes succeed.  fail = "flush_write": the file
\* system fails the first Segment::write of the new segment.
flush_memtable(e, now, fail) ==
    The({ The({ [ok |-> w.ok, memtable |-> d.memtable, segment |-> w.seg, now |-> now + 1]
                : w \in {IF fail = "flush_write"
                         THEN [ok |-> FALSE, seg |-> Segment_with_file(now + 1)]
                         ELSE write_all(Segment_with_file(now + 1), d.entries)} })
          : d \in {drain(e.memtable)} })

RECURSIVE index_calls_swapped(_, _, _, _)
\* The closure storing its two numbers in the order it was given them.
index_calls_swapped(index, count, sparse_offset, calls) ==
    IF calls = <<>> THEN index
    ELSE LET segment_index == calls[1][1]
             key_offset == calls[1][2]
             key == calls[1][3]
             index1 == IF count % sparse_offset = 0
                       THEN [k \in (DOMAIN index) \cup {key} |->
                               IF k = key THEN <<segment_index, key_offset>> ELSE index[k]]
                       ELSE index
         IN  index_calls_swapped(index1, count + 1, sparse_offset, Tail(calls))

RECURSIVE index_calls_count_first(_, _, _, _)
\* The closure counting the record before it tests the count.
index_calls_count_first(index, count, sparse_offset, calls) ==
    IF calls = <<>> THEN index
    ELSE LET segment_index == calls[1][1]
             key_offset == calls[1][2]
             key == calls[1][3]
             index1 == IF (count + 1) % sparse_offset = 0
                       THEN [k \in (DOMAIN index) \cup {key} |->
                               IF k = key THEN <<key_offset, segment_index>> ELSE index[k]]
                       ELSE index
         IN  index_calls_count_first(index1, count + 1, sparse_offset, Tail(calls))

RECURSIVE index_calls(_, _, _, _)
\* The closure merge_segments hands to merge, applied to merge's calls in order:
\* the record is indexed iff count % sparse_offset = 0; count grows by one.
index_calls(index, count, sparse_offset, calls) ==
    IF calls = <<>> THEN index
    ELSE LET segment_index == calls[1][1]
             key_offset == calls[1][2]
             key == calls[1][3]
             index1 == IF count % sparse_offset = 0
                       THEN [k \in (DOMAIN index) \cup {key} |->
                               IF k = key THEN <<key_offset, segment_index>> ELSE index[k]]
                       ELSE index
         IN  index_calls(index1, count + 1, sparse_offset, Tail(calls))

\* merge_segments without the clear(): the callback adds to the index it finds.
merge_segments_keep_index(e, now) ==
    The({ [ok |-> m.ok,
           e |-> [e EXCEPT !.sparse_memory_index =
                               index_calls(e.sparse_memory_index, 0, e.sparse_offset,
                                           m.calls),
                           !.segments = IF m.ok THEN m.res ELSE <<>>],
           now |-> m.now]
          : m \in {merge(e.segments, e.segment_size, now)} })

\* LSMEngine::merge_segments: [ok, e, now].  The index is cleared and rebuilt by
\* the callback; the list is taken out of the engine, and put back only if
\* merge succeeds.
merge_segments(e, now) ==
    The({ [ok |-> m.ok,
           e |-> [e EXCEPT !.sparse_memory_index =
                               index_calls(<<>>, 0, e.sparse_offset, m.calls),
                           !.segments = IF m.ok THEN m.res ELSE <<>>],
           now |-> m.now]
          : m \in {merge(e.segments, e.segment_size, now)} })

\* write flushing whenever the memtable is full, whether or not it holds the key.
write_flush_when_full(w, key, value) ==
    LET files1 == IF IsSome(w.e.wal)
                  THEN [w.files EXCEPT ![Unwrap(w.e.wal)] = persist(@, KVPair(key, value))]
                  ELSE w.files
    IN  IF IsSome(w.e.wal) /\ w.fail = "write_persist"
        THEN [ok |-> FALSE, e |-> w.e, files |-> w.files, now |-> w.now]
        ELSE IF at_capacity(w.e.memtable)
        THEN The({
                 IF ~ f.ok
                 THEN [ok |-> FALSE, e |-> [w.e EXCEPT !.memtable = f.memtable],
                       files |-> files1, now |-> f.now]
                 ELSE The({ [ok |-> m.ok, e |-> m.e, files |-> files1, now |-> m.now]
                            : m \in {merge_segments(
                                [w.e EXCEPT
                                   !.segments = Append(w.e.segments, f.segment),
                                   !.memtable = Memtable_insert(f.memtable, key, value)],
                                f.now)} })
                 : f \in {flush_memtable(w.e, w.now, w.fail)} })
        ELSE [ok |-> TRUE,
              e |-> [w.e EXCEPT !.memtable = Memtable_insert(w.e.memtable, key, value)],
              files |-> files1, now |-> w.now]

\* LSMEngine::write after its WAL append, on the world w = [e, files, now,
\* fail]: [ok, e, files, now].  The memtable takes the pair, after a flush and
\* a merge if it is full of other keys.
insert_or_flush(w, key, value) ==
    IF at_capacity(w.e.memtable) /\ ~ Memtable_contains(w.e.memtable, key)
    THEN The({
             IF ~ f.ok
             THEN [ok |-> FALSE, e |-> [w.e EXCEPT !.memtable = f.memtable],
                   files |-> w.files, now |-> f.now]
             ELSE The({ [ok |-> m.ok, e |-> m.e, files |-> w.files, now |-> m.now]
                        : m \in {merge_segments(
                            [w.e EXCEPT
                               !.segments = Append(w.e.segments, f.segment),
                               !.memtable = Memtable_insert(f.memtable, key, value)],
                            f.now)} })
             : f \in {flush_memtable(w.e, w.now, w.fail)} })
    ELSE [ok |-> TRUE,
          e |-> [w.e EXCEPT !.memtable = Memtable_insert(w.e.memtable, key, value)],
          files |-> w.files, now |-> w.now]

\* The WAL file of the engine with kv appended, if the engine has a WAL.
logged(w, kv) ==
    IF IsSome(w.e.wal)
    THEN [w.files EXCEPT ![Unwrap(w.e.wal)] = persist(@, kv)]
    ELSE w.files

\* write doing its WAL append last: a failed append is reported after the
\* memtable and the segments have changed.
write_persist_last(w, key, value) ==
    The({ IF ~ r.ok THEN r
          ELSE IF IsSome(w.e.wal) /\ w.fail = "write_persist"
          THEN [r EXCEPT !.ok = FALSE]
          ELSE [r EXCEPT !.files = logged(w, KVPair(key, value))]
          : r \in {insert_or_flush(w, key, value)} })

\* LSMEngine::write: [ok, e, files, now].  fail = "write_persist": the file
\* system fails the WAL append, and write returns the error at once.
write(w, key, value) ==
    IF IsSome(w.e.wal) /\ w.fail = "write_persist"
    THEN [ok |-> FALSE, e |-> w.e, files |-> w.files, now |-> w.now]
    ELSE insert_or_flush([w EXCEPT !.files = logged(w, KVPair(key, value))], key, value)

\* The greatest key of the sparse index that is <= key, if any.
closest_key(index, key) ==
    LET before == { k \in DOMAIN index : k <= key }
    IN  IF before = {} THEN None
        ELSE Some(CHOOSE k \in before : \A o \in before : o <= k)

\* The loop of read looking into the indexed segment only.
scan_indexed_segment_only(segments, index, segment_index, key_offset, key) ==
    IF index >= Len(segments) THEN None
    ELSE LET maybe_value == search_from(segments[index + 1], key, key_offset)
         IN  IF IsSome(maybe_value) /\ Unwrap(maybe_value) # TOMBSTONE_VALUE
             THEN maybe_value ELSE None

RECURSIVE scan_segments_tombstone_blind(_, _, _, _, _)
\* The loop of read handing out whatever a segment yields, the tombstone
\* included.
scan_segments_tombstone_blind(segments, index, segment_index, key_offset, key) ==
    IF index >= Len(segments) THEN None
    ELSE LET maybe_value == IF index = segment_index
                            THEN search_from(segments[index + 1], key, key_offset)
                            ELSE search_from_start(segments[index + 1], key)
         IN  IF IsSome(maybe_value) THEN maybe_value
             ELSE scan_segments_tombstone_blind(segments, index + 1, segment_index,
                                                key_offset, key)

RECURSIVE scan_segments(_, _, _, _, _)
\* The for loop of read over index..segments.len(): the first segment that
\* yields a value decides.
scan_segments(segments, index, segment_index, key_offset, key) ==
    IF index >= Len(segments) THEN None
    ELSE LET maybe_value == IF index = segment_index
                            THEN search_from(segments[index + 1], key, key_offset)
                            ELSE search_from_start(segments[index + 1], key)
         IN  IF IsSome(maybe_value)
             THEN IF Unwrap(maybe_value) # TOMBSTONE_VALUE THEN maybe_value ELSE None
             ELSE scan_segments(segments, index + 1, segment_index, key_offset, key)

\* read handing out whatever the memtable holds, the tombstone included.
read_memtable_unchecked(e, key) ==
    LET in_memory == Memtable_get(e.memtable, key)
        closest == closest_key(e.sparse_memory_index, key)
    IN  IF IsSome(in_memory) THEN in_memory
        ELSE IF ~ IsSome(closest) THEN None
        ELSE scan_segments(e.segments,
                           e.sparse_memory_index[Unwrap(closest)][2],
                           e.sparse_memory_index[Unwrap(closest)][2],
                           e.sparse_memory_index[Unwrap(closest)][1],
                           key)

\* LSMEngine::read
read(e, key) ==
    LET in_memory == Memtable_get(e.memtable, key)
        closest == closest_key(e.sparse_memory_index, key)
    IN  IF IsSome(in_memory)
        THEN IF Unwrap(in_memory) = TOMBSTONE_VALUE THEN None ELSE in_memory
        ELSE IF ~ IsSome(closest) THEN None
        ELSE scan_segments(e.segments,
                           e.sparse_memory_index[Unwrap(closest)][2],
                           e.sparse_memory_index[Unwrap(closest)][2],
                           e.sparse_memory_index[Unwrap(closest)][1],
                           key)

\* delete putting the tombstone into the memtable itself, as Memtable::delete
\* does, without going through write.
delete_in_memtable(w, key) ==
    [ok |-> TRUE,
     e |-> [w.e EXCEPT !.memtable = Memtable_insert(w.e.memtable, key, TOMBSTONE_VALUE)],
     files |-> IF IsSome(w.e.wal)
               THEN [w.files EXCEPT ![Unwrap(w.e.wal)] =
                         persist(@, KVPair(key, TOMBSTONE_VALUE))]
               ELSE w.files,
     now |-> w.now]

\* LSMEngine::delete: the tombstone is persisted here, and once more by write.
\* fail = "delete_persist": the file system fails the append made here.
delete(w, key) ==
    IF IsSome(w.e.wal) /\ w.fail = "delete_persist"
    THEN [ok |-> FALSE, e |-> w.e, files |-> w.files, now |-> w.now]
    ELSE write([w EXCEPT !.files = logged(w, KVPair(key, TOMBSTONE_VALUE))],
               key, TOMBSTONE_VALUE)

\* LSMEngine::contains
contains(e, key) == IsSome(read(e, key))

\* LSMEngine::clear: the segments and the index, not the memtable.
clear(e) == [e EXCEPT !.segments = <<>>, !.sparse_memory_index = <<>>]

RECURSIVE replay(_, _)
\* The for loop of recover_from: every record goes through write; the first
\* failed write ends it.
replay(w, records) ==
    IF records = <<>> THEN [ok |-> TRUE, e |-> w.e, files |-> w.files, now |-> w.now]
    ELSE The({ IF ~ r.ok THEN r
               ELSE replay([e |-> r.e, files |-> r.files, now |-> r.now,
                            fail |-> w.fail], Tail(records))
               : r \in {write(w, records[1].key, records[1].value)} })

\* recover_from adopting the file as the engine's WAL before the replay.
recover_from_adopt_first(w, wal_file) ==
    replay([w EXCEPT !.e = [clear(w.e) EXCEPT !.wal = Some(wal_file)]], w.files[wal_file])

\* LSMEngine::recover_from(wal_file): clear, replay the file's records, then
\* adopt the file as the engine's WAL (only when the replay succeeded).
recover_from(w, wal_file) ==
    The({ IF ~ r.ok THEN r
          ELSE [r EXCEPT !.e = [r.e EXCEPT !.wal = Some(wal_file)]]
          : r \in {replay([w EXCEPT !.e = clear(w.e)], w.files[wal_file])} })

\* ------------------------------------------------------------------- state
VARIABLES
    lsm,        \* the engine under test
    files,      \* the contents of the WAL files, by file
    now,        \* the monotonic clock read by Instant::now()
    result,     \* how the last engine call returned: "ok", "unsorted" (UnsortedWrite), "io", "panic"
    budget,     \* the number of write and delete calls the run may make
    current,    \* history: per key, the value of the last write or delete (None: never)
    written,    \* history: per key, the number of write calls on it
    deleted,    \* history: the keys some delete call was made on
    nops,       \* history: the number of write and delete calls made
    e1_reads,   \* history: Some(what every key read on the engine whose WAL was replayed)
    ssts,       \* segment tests: the segments built by hand
    sst_result, \* segment tests: Some(the last Segment::write: segment before and after, key, what it returned)
    merged,     \* segment tests: Some([inputs, segment_size, out]) once merge has run
    sst_log,    \* segment tests: the writes the segment made last took: [key, value, offset, after_read]
    sst_read,   \* segment tests: Some(the last at, peek or search_from, if no write followed it)
    calls,      \* history: the write and delete calls made, as the records they stand for
    fault,      \* history: the I/O call the file system failed in the last engine call, "none" if none
    replayed,   \* history: Some([log, calls]) once lsm.recover_from ran: the log at the call, the calls made before it
    config      \* history: Some(the <<M, T, S>> LSMEngine::new was last called with)

vars == <<lsm, files, now, result, budget, current, written, deleted, nops, e1_reads,
          ssts, sst_result, merged, sst_log, sst_read, calls, fault, replayed, config>>

engine_vars == <<lsm, files, result, budget, current, written, deleted, nops, e1_reads,
                 calls, fault, replayed, config>>
sst_vars == <<ssts, sst_result, merged, sst_log, sst_read>>

\* The WAL file of the engine under test ("foo" in the tests).
WalFile == 1

\* The file handed to recover_from, when it is not the WAL of the engine.
LogFile == 2

\* The configurations LSMEngine::new accepts.
Configs ==
    { c \in (1..MaxCapacity) \X (1..MaxSegmentSize) \X (1..MaxSparseOffset) :
        c[2] >= c[1] }

World == [e |-> lsm, files |-> files, now |-> now, fail |-> "none"]

\* The value of the next write: one no earlier write of the run carried.
FreshValue == nops + 1

InitWith(ops) ==
    /\ \E c \in Configs : /\ lsm = LSMEngine_new(c[1], c[2], c[3], Some(WalFile))
                           /\ config = Some(c)
    /\ files = [f \in {WalFile} |-> <<>>]
    /\ now = 0
    /\ result = "ok"
    /\ budget = ops
    /\ current = [k \in Keys |-> None]
    /\ written = [k \in Keys |-> 0]
    /\ deleted = {}
    /\ nops = 0
    /\ calls = <<>>
    /\ fault = "none"
    /\ replayed = None
    /\ e1_reads = None
    /\ ssts = <<>>
    /\ sst_result = None
    /\ merged = None
    /\ sst_log = <<>>
    /\ sst_read = None

Init == InitWith(MaxOps)

InitRecovery == InitWith(MaxWalOps)

InitFault == InitWith(MaxFaultOps)

\* The record at place i of a log file: a tombstone, or a value no write of
\* the run carries.
LogRecord(key, tomb, i) == KVPair(key, IF tomb THEN TOMBSTONE_VALUE ELSE MaxReplayOps + i)

\* The contents a log file may have: any records, in any key order.
Logs ==
    UNION { { [i \in 1..n |-> LogRecord(ks[i], ts[i], i)]
              : ks \in [1..n -> Keys], ts \in [1..n -> BOOLEAN] }
            : n \in 0..MaxLogLen }

\* An engine built with or without a WAL of its own, and a log file.
InitReplay ==
    /\ \E c \in Configs, wal \in {None, Some(WalFile)} :
           /\ lsm = LSMEngine_new(c[1], c[2], c[3], wal)
           /\ config = Some(c)
    /\ \E log \in Logs : files = [f \in {WalFile, LogFile} |->
                                      IF f = LogFile THEN log ELSE <<>>]
    /\ now = 0
    /\ result = "ok"
    /\ budget = MaxReplayOps
    /\ current = [k \in Keys |-> None]
    /\ written = [k \in Keys |-> 0]
    /\ deleted = {}
    /\ nops = 0
    /\ calls = <<>>
    /\ fault = "none"
    /\ replayed = None
    /\ e1_reads = None
    /\ ssts = <<>>
    /\ sst_result = None
    /\ merged = None
    /\ sst_log = <<>>
    /\ sst_read = None

\* The segment tests build no engine: the one of the state stays as constructed.
InitSst == InitWith(0) /\ lsm = LSMEngine_new(1, 1, 1, Some(WalFile))

\* No engine: LSMEngine::new was not called yet, or it panicked.
NoEngine == <<>>

\* Every <<M, T, S>> LSMEngine::new may be called with.
AllConfigs == (1..MaxCapacity) \X (1..MaxSegmentSize) \X (1..MaxSparseOffset)

\* No engine is built yet.
InitNew ==
    /\ lsm = NoEngine
    /\ config = None
    /\ files = [f \in {WalFile} |-> <<>>]
    /\ now = 0
    /\ result = "ok"
    /\ budget = MaxOps
    /\ current = [k \in Keys |-> None]
    /\ written = [k \in Keys |-> 0]
    /\ deleted = {}
    /\ nops = 0
    /\ calls = <<>>
    /\ fault = "none"
    /\ replayed = None
    /\ e1_reads = None
    /\ ssts = <<>>
    /\ sst_result = None
    /\ merged = None
    /\ sst_log = <<>>
    /\ sst_read = None

\* LSMEngine::new(c[1], c[2], c[3], wal): the panic leaves no engine.
New(c) ==
    /\ config = None
    /\ config' = Some(c)
    /\ IF new_panics(c[1], c[2])
       THEN lsm' = NoEngine /\ result' = "panic"
       ELSE lsm' = LSMEngine_new(c[1], c[2], c[3], Some(WalFile)) /\ result' = "ok"
    /\ UNCHANGED <<files, now, budget, current, written, deleted, nops, e1_reads, calls,
                   fault, replayed, sst_vars>>

\* lsm.write(key, value)
Write(key, value) ==
    /\ nops < budget
    /\ e1_reads = None
    /\ \E r \in {write(World, key, value)} :
           /\ lsm' = r.e
           /\ files' = r.files
           /\ now' = r.now
           /\ result' = IF r.ok THEN "ok" ELSE "unsorted"
    /\ calls' = Append(calls, KVPair(key, value))
    /\ current' = [current EXCEPT ![key] = Some(value)]
    /\ written' = [written EXCEPT ![key] = @ + 1]
    /\ nops' = nops + 1
    /\ fault' = "none"
    /\ UNCHANGED <<budget, deleted, e1_reads, config, replayed, sst_vars>>

\* lsm.delete(key)
Delete(key) ==
    /\ nops < budget
    /\ e1_reads = None
    /\ \E r \in {delete(World, key)} :
           /\ lsm' = r.e
           /\ files' = r.files
           /\ now' = r.now
           /\ result' = IF r.ok THEN "ok" ELSE "unsorted"
    /\ calls' = Append(calls, KVPair(key, TOMBSTONE_VALUE))
    /\ current' = [current EXCEPT ![key] = Some(TOMBSTONE_VALUE)]
    /\ deleted' = deleted \cup {key}
    /\ nops' = nops + 1
    /\ fault' = "none"
    /\ UNCHANGED <<budget, written, e1_reads, config, replayed, sst_vars>>

\* The I/O calls of write and of delete that the file system may fail.
WriteFaults == {"write_persist", "flush_write"}

DeleteFaults == {"delete_persist", "write_persist", "flush_write"}

\* lsm.write(key, value) while the file system fails the I/O call fail, if the
\* write gets to it.
WriteFault(key, value, fail) ==
    /\ nops < budget
    /\ e1_reads = None
    /\ \E r \in {write([World EXCEPT !.fail = fail], key, value)} :
           /\ lsm' = r.e
           /\ files' = r.files
           /\ now' = r.now
           /\ result' = IF r.ok THEN "ok" ELSE "io"
           /\ fault' = IF r.ok THEN "none" ELSE fail
           /\ current' = IF r.ok THEN [current EXCEPT ![key] = Some(value)] ELSE current
           /\ written' = IF r.ok THEN [written EXCEPT ![key] = @ + 1] ELSE written
    /\ calls' = Append(calls, KVPair(key, value))
    /\ nops' = nops + 1
    /\ UNCHANGED <<budget, deleted, e1_reads, config, replayed, sst_vars>>

\* lsm.delete(key) while the file system fails the I/O call fail, if the delete
\* gets to it.
DeleteFault(key, fail) ==
    /\ nops < budget
    /\ e1_reads = None
    /\ \E r \in {delete([World EXCEPT !.fail = fail], key)} :
           /\ lsm' = r.e
           /\ files' = r.files
           /\ now' = r.now
           /\ result' = IF r.ok THEN "ok" ELSE "io"
           /\ fault' = IF r.ok THEN "none" ELSE fail
           /\ current' = IF r.ok THEN [current EXCEPT ![key] = Some(TOMBSTONE_VALUE)]
                          ELSE current
           /\ deleted' = IF r.ok THEN deleted \cup {key} ELSE deleted
    /\ calls' = Append(calls, KVPair(key, TOMBSTONE_VALUE))
    /\ nops' = nops + 1
    /\ UNCHANGED <<budget, written, e1_reads, config, replayed, sst_vars>>

\* test_recovery_with_wal: a fresh engine without a WAL of its own is built and
\* recovers from the WAL file of the engine under test, which is given up; the
\* fresh engine is the engine under test from then on.
Recover(c) ==
    /\ e1_reads = None
    /\ IsSome(lsm.wal)
    /\ \E r \in {recover_from([e |-> LSMEngine_new(c[1], c[2], c[3], None),
                                files |-> files, now |-> now, fail |-> "none"],
                               Unwrap(lsm.wal))} :
           /\ lsm' = r.e
           /\ files' = r.files
           /\ now' = r.now
           /\ result' = IF r.ok THEN "ok" ELSE "unsorted"
    /\ e1_reads' = Some([k \in Keys |-> read(lsm, k)])
    /\ config' = Some(c)
    /\ UNCHANGED <<budget, current, written, deleted, nops, calls, fault, replayed,
                   sst_vars>>

\* lsm.recover_from(the log file), on the engine as the calls so far left it.
RecoverFrom ==
    /\ replayed = None
    /\ \E r \in {recover_from(World, LogFile)} :
           /\ lsm' = r.e
           /\ files' = r.files
           /\ now' = r.now
           /\ result' = IF r.ok THEN "ok" ELSE "unsorted"
    /\ replayed' = Some([log |-> files[LogFile], calls |-> Len(calls)])
    /\ UNCHANGED <<budget, current, written, deleted, nops, calls, fault, e1_reads,
                   config, sst_vars>>

\* Segment::temp(): one more segment for the segment tests.
NewSegment ==
    /\ merged = None
    /\ Len(ssts) < MaxSsts
    /\ ssts' = Append(ssts, Segment_with_file(now + 1))
    /\ now' = now + 1
    /\ sst_log' = <<>>
    /\ sst_read' = None
    /\ UNCHANGED <<sst_result, merged, engine_vars>>

\* sst.write(key, value) on the segment made last.
SstWrite(key, value) ==
    /\ merged = None
    /\ ssts # <<>>
    /\ ssts[Len(ssts)].size < MaxSstLen
    /\ \E w \in {Segment_write(ssts[Len(ssts)], key, value)} :
           /\ ssts' = [ssts EXCEPT ![Len(ssts)] = w.seg]
           /\ sst_result' = Some([before |-> ssts[Len(ssts)], key |-> key, ok |-> w.ok,
                                  offset |-> w.offset, err |-> w.err, after |-> w.seg])
           /\ sst_log' = IF w.ok
                         THEN Append(sst_log, [key |-> key, value |-> value,
                                               offset |-> w.offset,
                                               after_read |-> IsSome(sst_read)])
                         ELSE sst_log
    /\ sst_read' = None
    /\ UNCHANGED <<now, merged, engine_vars>>

\* The record boundaries of a file: where each record starts, and the end.
Boundaries(recs) == { OffsetOf(recs, i) : i \in 1..Len(recs) + 1 }

\* The record boundaries of the segment made last.
LastBoundaries == IF ssts = <<>> THEN {} ELSE Boundaries(ssts[Len(ssts)].recs)

\* sst.at(pos) on the segment made last.
SstAt(pos) ==
    /\ merged = None
    /\ ssts # <<>>
    /\ \E r \in {Segment_at(ssts[Len(ssts)], pos)} :
           /\ ssts' = [ssts EXCEPT ![Len(ssts)] = r.seg]
           /\ sst_read' = Some([op |-> "at", before |-> ssts[Len(ssts)], after |-> r.seg,
                                 key |-> 0, offset |-> pos, value |-> r.value])
    /\ UNCHANGED <<now, sst_result, merged, sst_log, engine_vars>>

\* sst.peek() on the segment made last.
SstPeek ==
    /\ merged = None
    /\ ssts # <<>>
    /\ \E r \in {Segment_peek(ssts[Len(ssts)])} :
           /\ ssts' = [ssts EXCEPT ![Len(ssts)] = r.seg]
           /\ sst_read' = Some([op |-> "peek", before |-> ssts[Len(ssts)], after |-> r.seg,
                                 key |-> 0, offset |-> tell(ssts[Len(ssts)]),
                                 value |-> r.value])
    /\ UNCHANGED <<now, sst_result, merged, sst_log, engine_vars>>

\* sst.search_from(key, offset) on the segment made last.
SstSearchFrom(key, offset) ==
    /\ merged = None
    /\ ssts # <<>>
    /\ \E r \in {Segment_search_from(ssts[Len(ssts)], key, offset)} :
           /\ ssts' = [ssts EXCEPT ![Len(ssts)] = r.seg]
           /\ sst_read' = Some([op |-> "search_from", before |-> ssts[Len(ssts)],
                                 after |-> r.seg, key |-> key, offset |-> offset,
                                 value |-> r.value])
    /\ UNCHANGED <<now, sst_result, merged, sst_log, engine_vars>>

\* merge(ssts, segment_size, ..) of the tests: the segments are consumed.
Merge(segment_size) ==
    /\ merged = None
    /\ \E out \in {merge(ssts, segment_size, now)} :
           /\ merged' = Some([inputs |-> ssts, segment_size |-> segment_size,
                              ok |-> out.ok, res |-> out.res, calls |-> out.calls])
           /\ now' = out.now
    /\ ssts' = <<>>
    /\ sst_log' = <<>>
    /\ sst_read' = None
    /\ UNCHANGED <<sst_result, engine_vars>>

\* The number of Segment::write calls of the segment tests so far that
\* succeeded; the next one carries a value none of them carried.
RECURSIVE TotalSize(_)
TotalSize(segments) ==
    IF segments = <<>> THEN 0
    ELSE segments[1].size + TotalSize(Tail(segments))

Next ==
    \/ \E key \in Keys : Write(key, FreshValue)
    \/ \E key \in Keys : Delete(key)

NextRecovery ==
    \/ \E key \in Keys : Write(key, FreshValue)
    \/ \E key \in Keys : Delete(key)
    \/ \E c \in Configs : Recover(c)

NextFault ==
    \/ \E key \in Keys : Write(key, FreshValue)
    \/ \E key \in Keys : Delete(key)
    \/ \E key \in Keys, fail \in WriteFaults : WriteFault(key, FreshValue, fail)
    \/ \E key \in Keys, fail \in DeleteFaults : DeleteFault(key, fail)

NextReplay ==
    \/ \E key \in Keys : Write(key, FreshValue)
    \/ \E key \in Keys : Delete(key)
    \/ RecoverFrom

NextSst ==
    \/ NewSegment
    \/ \E key \in Keys : SstWrite(key, TotalSize(ssts) + 1)
    \/ \E pos \in LastBoundaries : SstAt(pos)
    \/ SstPeek
    \/ \E key \in Keys, offset \in LastBoundaries : SstSearchFrom(key, offset)
    \/ \E segment_size \in 1..MaxSegmentSize : Merge(segment_size)

\* The engine under writes and deletes.
Spec == Init /\ [][Next]_vars

\* The engine under writes and deletes, then a recovery from its WAL.
SpecRecovery == InitRecovery /\ [][NextRecovery]_vars

\* The engine under writes and deletes, the file system failing some of their
\* I/O calls.
SpecFault == InitFault /\ [][NextFault]_vars

\* An engine under writes and deletes that recovers from a log file at some
\* point, and goes on.
SpecReplay == InitReplay /\ [][NextReplay]_vars

\* The segment and merge tests.
SpecSst == InitSst /\ [][NextSst]_vars

NextNew ==
    \/ \E c \in AllConfigs : New(c)
    \/ lsm # NoEngine /\ Next

\* The engine from its construction on.
SpecNew == InitNew /\ [][NextNew]_vars

\* No segment test has started.
SstIdle == ssts = <<>> /\ sst_result = None /\ merged = None /\ sst_read = None

NextAll ==
    \/ SstIdle /\ Next
    \/ nops = 0 /\ lsm = LSMEngine_new(1, 1, 1, Some(WalFile)) /\ NextSst

\* A run of the engine, or a run of the segment tests.
SpecAll == Init /\ [][NextAll]_vars

\* ------------------------------------------------------- claims: vocabulary
RECURSIVE Concat(_)
\* The records of the segments, read from the start of each, in list order.
Concat(segments) ==
    IF segments = <<>> THEN <<>>
    ELSE segments[1].recs \o Concat(Tail(segments))

KeysOf(recs) == { recs[i].key : i \in 1..Len(recs) }

StrictlyIncreasing(recs) ==
    \A i \in 1..Len(recs) - 1 : recs[i].key < recs[i + 1].key

\* The last call on key was write(key, v) for a user value v.
LastIsWrite(key) == IsSome(current[key]) /\ current[key] # Some(TOMBSTONE_VALUE)

\* Some segment of the engine holds a record of key.
InSegments(key) == key \in KeysOf(Concat(lsm.segments))

\* ------------------------------------------------------------------ claims
\* C1 (read-your-writes): whenever the last call on a key k was write(k, v),
\* whatever writes and deletes of other keys, flushes and merges followed,
\* read(k) returns Some(v).
C1_ReadYourWrites ==
    \A k \in Keys : LastIsWrite(k) => read(lsm, k) = current[k]

\* C2 (last-writer-wins): a key written several times, whose last write carried
\* v, reads Some(v): neither an older value of the key nor None.
C2_LastWriterWins ==
    \A k \in Keys :
        (written[k] >= 2 /\ LastIsWrite(k)) => read(lsm, k) = current[k]

\* C3 (delete visibility): whenever the last call on a key k was delete(k),
\* whatever was written to k before and whatever calls on other keys followed,
\* read(k) returns None.
C3_DeleteVisibility ==
    \A k \in Keys : current[k] = Some(TOMBSTONE_VALUE) => read(lsm, k) = None

\* C3 witness: a key written, then deleted, whose tombstone a flush and a merge
\* have moved from the memtable into a segment.
C3_Witness ==
    \E k \in Keys :
        /\ current[k] = Some(TOMBSTONE_VALUE)
        /\ written[k] >= 1
        /\ ~ Memtable_contains(lsm.memtable, k)
        /\ \E i \in 1..Len(lsm.segments) :
              search_from_start(lsm.segments[i], k) = Some(TOMBSTONE_VALUE)
        /\ read(lsm, k) = None

\* The run so far is a distinct-key workload: no key written twice, no delete.
DistinctKeyWorkload == deleted = {} /\ \A k \in Keys : written[k] <= 1

\* C4 (distinct-key workload): while no key was written twice and none was
\* deleted, every key written reads its value and every other key reads None.
C4_DistinctKeys ==
    DistinctKeyWorkload => \A k \in Keys : read(lsm, k) = current[k]

\* C4 witness: all keys but one written once each, one of them flushed to a
\* segment and read from there, the last key unwritten and read as None.
C4_Witness ==
    /\ DistinctKeyWorkload
    /\ Cardinality({ k \in Keys : written[k] = 1 }) = NumKeys - 1
    /\ \E k \in Keys : InSegments(k) /\ ~ Memtable_contains(lsm.memtable, k)
                        /\ read(lsm, k) = current[k] /\ IsSome(current[k])
    /\ \E k \in Keys : written[k] = 0 /\ read(lsm, k) = None

\* C5 (WAL replay identity): once a fresh engine of any valid configuration has
\* recovered from the WAL of an engine, every key reads on it what it read on
\* that engine.
C5_ReplayIdentity ==
    (IsSome(e1_reads) /\ result = "ok") =>
        \A k \in Keys : read(lsm, k) = Unwrap(e1_reads)[k]

\* ----------------------------------------------------- claims on the merger
\* The inputs of the merge pass the segment tests ran, and what it returned.
MergeIn == Unwrap(merged).inputs
MergeOut == Concat(Unwrap(merged).res)
MergeRan == IsSome(merged) /\ Unwrap(merged).ok

\* The inputs of the merge pass that hold a record of key.
Holders(key) == { i \in 1..Len(MergeIn) : key \in KeysOf(MergeIn[i].recs) }

\* The newest of the inputs that hold a record of key.
Newest(key) ==
    CHOOSE i \in Holders(key) :
        \A j \in Holders(key) : MergeIn[j].created_at <= MergeIn[i].created_at

\* C6 (merge completeness): the keys of the output segments of a merge pass are
\* exactly the keys of its input segments: none dropped, none invented.
C6_MergeCompleteness ==
    MergeRan => KeysOf(MergeOut) = KeysOf(Concat(MergeIn))

\* C7 (merge recency resolution): a key held by more than one input segment is
\* emitted once, and the record emitted is a record of the newest input
\* segment that holds the key.
C7_MergeRecency ==
    MergeRan =>
        \A n \in 1..Len(MergeOut) :
            Cardinality(Holders(MergeOut[n].key)) >= 2 =>
                /\ \E j \in 1..Len(MergeIn[Newest(MergeOut[n].key)].recs) :
                      MergeIn[Newest(MergeOut[n].key)].recs[j] = MergeOut[n]
                /\ \A o \in 1..Len(MergeOut) : MergeOut[o].key = MergeOut[n].key => o = n

\* C8 (merge monotonicity, segment sort order): the segments a merge pass
\* returns, read in list order, are strictly increasing by key; so are, in
\* every state between two engine calls, the segments of the engine: each is
\* sorted and no key is in two of them.
C8_SegmentsStrictlyIncreasing ==
    /\ StrictlyIncreasing(Concat(lsm.segments))
    /\ IsSome(merged) => StrictlyIncreasing(MergeOut)

\* C8 witness: an engine with two segments or more after a merge pass whose
\* inputs held two versions of a key.
C8_Witness ==
    /\ Len(lsm.segments) >= 2
    /\ \E k \in Keys : written[k] + (IF k \in deleted THEN 1 ELSE 0) >= 2 /\ InSegments(k)
    /\ StrictlyIncreasing(Concat(lsm.segments))

\* C9 (segment size bound): of the segments a merge pass with target T returns,
\* all but the last hold exactly T records and the last holds 1 to T; a pass
\* over no record returns no segment.
C9_SegmentSizeBound ==
    MergeRan =>
        LET res == Unwrap(merged).res
            T == Unwrap(merged).segment_size
        IN  /\ \A i \in 1..Len(res) :
                  /\ res[i].size = Len(res[i].recs)
                  /\ IF i < Len(res) THEN res[i].size = T
                                     ELSE res[i].size >= 1 /\ res[i].size <= T
            /\ Concat(MergeIn) = <<>> => res = <<>>

\* C9 witness: a pass that returned two segments or more, the last one short.
C9_Witness ==
    /\ MergeRan
    /\ Len(Unwrap(merged).res) >= 2
    /\ Unwrap(merged).res[Len(Unwrap(merged).res)].size < Unwrap(merged).segment_size

\* The last Segment::write of the segment tests was given a key less than the
\* key written before it.
UnsortedCall ==
    /\ IsSome(sst_result)
    /\ IsSome(Unwrap(sst_result).before.previous_key)
    /\ Unwrap(sst_result).key < Unwrap(Unwrap(sst_result).before.previous_key)

\* C10 (unsorted-write detection): Segment.write of a key less than the last
\* written key fails with UnsortedWrite{previous, current} and leaves the
\* segment as it was; any other key is accepted, is appended at the returned
\* offset and makes size one more.
C10_UnsortedWrite ==
    IsSome(sst_result) =>
        LET r == Unwrap(sst_result)
        IN  IF UnsortedCall
            THEN /\ ~ r.ok
                 /\ r.err = [previous |-> Unwrap(r.before.previous_key), current |-> r.key]
                 /\ r.after = r.before
            ELSE /\ r.ok
                 /\ r.after.size = r.before.size + 1
                 /\ Len(r.after.recs) = Len(r.before.recs) + 1
                 /\ r.after.recs[Len(r.after.recs)].key = r.key
                 /\ r.after.previous_key = Some(r.key)
                 /\ r.offset = FileLen(r.before.recs)

\* C10 witness: a rejected write on a segment that holds a record.
C10_Witness ==
    /\ UnsortedCall
    /\ ~ Unwrap(sst_result).ok
    /\ Unwrap(sst_result).before.size >= 1
    /\ Unwrap(sst_result).after = Unwrap(sst_result).before

\* The value the indexed segment yields for the index entry of key, searched
\* from the entry's offset; None when the entry's segment index is out of range.
IndexedValue(key) ==
    LET key_offset == lsm.sparse_memory_index[key][1]
        segment_index == lsm.sparse_memory_index[key][2]
    IN  IF segment_index >= Len(lsm.segments) THEN None
        ELSE search_from(lsm.segments[segment_index + 1], key, key_offset)

\* C11 as stated (sparse-index correctness): every index entry k -> (off, ix)
\* has ix within the segments list and segments[ix].search_from(k, off) returns
\* Some(v), v the value of the most recent write or delete of k.
C11_IndexedValueIsCurrent ==
    \A k \in DOMAIN lsm.sparse_memory_index :
        /\ lsm.sparse_memory_index[k][2] < Len(lsm.segments)
        /\ IndexedValue(k) = current[k]

\* C11 amended: every index entry k -> (off, ix) has ix within the segments
\* list and segments[ix].search_from(k, off) returns Some(v); v is the value of
\* the most recent write or delete of k unless the memtable holds k.
C11_IndexedValueUnlessInMemtable ==
    \A k \in DOMAIN lsm.sparse_memory_index :
        /\ lsm.sparse_memory_index[k][2] < Len(lsm.segments)
        /\ IsSome(IndexedValue(k))
        /\ ~ Memtable_contains(lsm.memtable, k) => IndexedValue(k) = current[k]

\* C11 witness: an entry at a non-zero offset and an entry of a segment other
\* than the first, both of keys the memtable does not hold, found with their
\* current values.
C11_Witness ==
    /\ \E k \in DOMAIN lsm.sparse_memory_index :
          /\ lsm.sparse_memory_index[k][1] > 0
          /\ ~ Memtable_contains(lsm.memtable, k)
          /\ IndexedValue(k) = current[k]
    /\ \E k \in DOMAIN lsm.sparse_memory_index :
          /\ lsm.sparse_memory_index[k][2] > 0
          /\ ~ Memtable_contains(lsm.memtable, k)
          /\ IndexedValue(k) = current[k]

\* The key was never written or deleted, or the last call on it was a delete.
AbsentOrDeleted(key) ==
    current[key] = None \/ current[key] = Some(TOMBSTONE_VALUE)

\* C12 (absent and deleted keys): contains(k) is read(k).is_some() for every
\* key, and for a key never written, or last deleted, contains is false and
\* read is None.
C12_AbsentAndDeleted ==
    \A k \in Keys :
        /\ contains(lsm, k) = IsSome(read(lsm, k))
        /\ AbsentOrDeleted(k) => (~ contains(lsm, k) /\ read(lsm, k) = None)

\* C12 witness: a key never written that lies after an indexed key, so that
\* read scans the segments for it, and a deleted key whose tombstone is in a
\* segment and not in the memtable; contains is false for both, and true for
\* some third key.
C12_Witness ==
    /\ \E k \in Keys :
          /\ current[k] = None
          /\ IsSome(closest_key(lsm.sparse_memory_index, k))
          /\ ~ contains(lsm, k)
    /\ \E k \in Keys :
          /\ current[k] = Some(TOMBSTONE_VALUE)
          /\ ~ Memtable_contains(lsm.memtable, k)
          /\ InSegments(k)
          /\ ~ contains(lsm, k)
    /\ \E k \in Keys : contains(lsm, k)

\* C13 (configuration validity): LSMEngine::new with T < M panics and leaves no
\* engine; with T >= M it returns an engine of that configuration; an engine
\* keeps its M and T through every operation, so T >= M in every state.
C13_ConfigValid ==
    IsSome(config) =>
        LET M == Unwrap(config)[1]
            T == Unwrap(config)[2]
        IN  IF T < M
            THEN lsm = NoEngine /\ result = "panic"
            ELSE /\ lsm # NoEngine
                 /\ lsm.memtable.capacity = M
                 /\ lsm.segment_size = T
                 /\ lsm.sparse_offset = Unwrap(config)[3]
                 /\ lsm.segment_size >= lsm.memtable.capacity

\* C13 witness: an engine built with T = M that has flushed and merged.
C13_Witness ==
    /\ lsm # NoEngine
    /\ lsm.segment_size = lsm.memtable.capacity
    /\ lsm.segments # <<>>
    /\ nops = MaxOps

\* C13 witness of the failure: LSMEngine::new was called with T < M.
C13_PanicWitness ==
    /\ IsSome(config)
    /\ Unwrap(config)[2] < Unwrap(config)[1]
    /\ lsm = NoEngine

\* The positions (1-based) of the records of recs that hold key, from the
\* from-th record on.
Holding(recs, key, from) == { j \in from..Len(recs) : recs[j].key = key }

\* The value of the first record of recs holding key from the from-th record
\* on, if there is one.
FirstHolding(recs, key, from) ==
    IF Holding(recs, key, from) = {} THEN None
    ELSE Some(recs[CHOOSE j \in Holding(recs, key, from) :
                       \A o \in Holding(recs, key, from) : j <= o].value)

\* C14 (segment search): on every segment written in key order, for every
\* record boundary offset (the start of the i-th record, or the end of the
\* file) and every key, search_from(key, offset) is Some(v) iff a record at or
\* after offset holds key, v being the value of the first such record; a key
\* held only before offset gives None; search_from_start(key) is
\* search_from(key, 0) and finds every key the segment holds.
C14_SegmentSearch ==
    \A n \in 1..Len(ssts) :
        LET seg == ssts[n]
        IN  \A key \in Keys :
               /\ \A i \in 1..Len(seg.recs) + 1 :
                     search_from(seg, key, OffsetOf(seg.recs, i))
                         = FirstHolding(seg.recs, key, i)
               /\ search_from_start(seg, key) = search_from(seg, key, 0)
               /\ key \in KeysOf(seg.recs) => IsSome(search_from_start(seg, key))

\* C14 witness: a segment holding k1 and then k3: from the second record's
\* offset k3 is found and k1, held only before it, is not; from the start k1 is
\* found and k2, lying between the two, is not.
C14_Witness ==
    \E n \in 1..Len(ssts) :
        LET seg == ssts[n]
        IN  /\ Len(seg.recs) = 2
            /\ seg.recs[1].key = 1 /\ seg.recs[2].key = 3
            /\ search_from(seg, 3, OffsetOf(seg.recs, 2)) = Some(seg.recs[2].value)
            /\ search_from(seg, 1, OffsetOf(seg.recs, 2)) = None
            /\ search_from_start(seg, 1) = Some(seg.recs[1].value)
            /\ search_from_start(seg, 2) = None

\* C15 (position restoration): at, peek and search_from leave the segment,
\* its file position included, as they found it; so under any interleaving of
\* write, at, peek and search_from on a segment every write lands at the end
\* of the file, at(offset) of the offset a write returned is the value it
\* wrote, and the file read from the start is the written records in write
\* order.
C15_PositionRestored ==
    /\ IsSome(sst_read) => Unwrap(sst_read).after = Unwrap(sst_read).before
    /\ (ssts # <<>> /\ merged = None) =>
          LET seg == ssts[Len(ssts)]
          IN  /\ tell(seg) = FileLen(seg.recs)
              /\ \A i \in 1..Len(sst_log) :
                    /\ sst_log[i].offset = OffsetOf(seg.recs, i)
                    /\ Segment_at(seg, sst_log[i].offset).value = Some(sst_log[i].value)
              /\ RecordsFrom(seg.recs, 0)
                    = [i \in 1..Len(sst_log) |-> KVPair(sst_log[i].key, sst_log[i].value)]

\* C15 witness: two writes with a read call between them, then
\* search_from(key, offset) from the second record's offset, with the handle
\* at the end of the file before and after it.
C15_Witness ==
    /\ Len(sst_log) = 2
    /\ sst_log[2].after_read
    /\ IsSome(sst_read)
    /\ Unwrap(sst_read).op = "search_from"
    /\ Unwrap(sst_read).offset = sst_log[2].offset
    /\ Unwrap(sst_read).value = Some(sst_log[2].value)
    /\ tell(Unwrap(sst_read).after) = FileLen(Unwrap(sst_read).after.recs)
    /\ tell(Unwrap(sst_read).after) > Unwrap(sst_read).offset

\* C16 (flush trigger): a write(k, v) flushes and merges iff the memtable held
\* exactly M keys before it and k was not one of them.  When it does, a segment
\* file is created, the keys the memtable held are in the segments afterwards
\* and the memtable holds k alone; when it does not, no file is created, the
\* segments and the sparse index are as before and the memtable differs only
\* in holding v for k.
C16_FlushTrigger ==
    [][\A k \in Keys :
          written'[k] # written[k] =>
              LET table == lsm.memtable.kv_table
              IN  IF Cardinality(DOMAIN table) = lsm.memtable.capacity
                     /\ k \notin DOMAIN table
                  THEN /\ now' > now
                       /\ DOMAIN table \subseteq KeysOf(Concat(lsm'.segments))
                       /\ DOMAIN lsm'.memtable.kv_table = {k}
                       /\ lsm'.memtable.kv_table[k] = Unwrap(current'[k])
                  ELSE /\ now' = now
                       /\ lsm'.segments = lsm.segments
                       /\ lsm'.sparse_memory_index = lsm.sparse_memory_index
                       /\ lsm'.memtable.kv_table =
                              [o \in DOMAIN table \cup {k} |->
                                  IF o = k THEN Unwrap(current'[k]) ELSE table[o]]
      ]_vars

\* C16 witness: M = 2, three writes, the third of a key the full memtable
\* held: nothing was flushed, the memtable still holds its two keys.
C16_Witness ==
    /\ lsm.memtable.capacity = 2
    /\ at_capacity(lsm.memtable)
    /\ nops = 3
    /\ deleted = {}
    /\ \E k \in Keys : written[k] = 2 /\ Memtable_get(lsm.memtable, k) = current[k]
    /\ lsm.segments = <<>>
    /\ lsm.sparse_memory_index = <<>>

\* C16 witness of the flush: a write of a new key to a full memtable has left
\* it alone in the memtable and the other keys in the segments.
C16_FlushWitness ==
    /\ lsm.memtable.capacity = 2
    /\ nops = 3
    /\ Cardinality(DOMAIN lsm.memtable.kv_table) = 1
    /\ Len(lsm.segments) = 1
    /\ lsm.segments[1].size = 2

\* The number of keys the memtable holds.
MemtableSize == Cardinality(DOMAIN lsm.memtable.kv_table)

\* C17 (memtable bound): in every state reached by writes, deletes and a
\* recovery the memtable holds between 0 and M keys; and a write or delete that
\* flushes (it creates a segment file) leaves exactly one key in the memtable,
\* the key it wrote.
C17_MemtableBound ==
    /\ [](MemtableSize >= 0 /\ MemtableSize <= lsm.memtable.capacity)
    /\ [][(nops' # nops /\ now' > now) =>
             /\ Cardinality(DOMAIN lsm'.memtable.kv_table) = 1
             /\ \A k \in Keys :
                   (written'[k] # written[k] \/ current'[k] # current[k])
                       => DOMAIN lsm'.memtable.kv_table = {k}
         ]_vars

\* C17 witness: an engine with M = 2 that recovered from a WAL, flushing on
\* the way, and whose memtable is full again.
C17_Witness ==
    /\ IsSome(e1_reads)
    /\ lsm.memtable.capacity = 2
    /\ lsm.segments # <<>>
    /\ MemtableSize = 2

\* The number of records in the segments before the n-th (1-based).
RecordsBefore(segments, n) == Len(Concat(SubSeq(segments, 1, n - 1)))

\* C18 (sparse-index construction): the keys of the sparse index are exactly
\* the keys of the records at positions 0, S, 2S, ... of the engine's segments
\* taken in list order, and each is mapped to <<the byte offset of its record
\* in its segment, the index of that segment>>: nothing else, nothing of an
\* earlier generation.
C18_IndexConstruction ==
    LET segments == lsm.segments
        index == lsm.sparse_memory_index
        S == lsm.sparse_offset
    IN  /\ DOMAIN index =
              { k \in Keys :
                  \E n \in 1..Len(segments) : \E j \in 1..Len(segments[n].recs) :
                      /\ segments[n].recs[j].key = k
                      /\ (RecordsBefore(segments, n) + j - 1) % S = 0 }
        /\ \A n \in 1..Len(segments) : \A j \in 1..Len(segments[n].recs) :
              (RecordsBefore(segments, n) + j - 1) % S = 0 =>
                  /\ segments[n].recs[j].key \in DOMAIN index
                  /\ index[segments[n].recs[j].key]
                        = <<OffsetOf(segments[n].recs, j), n - 1>>

\* C18 witness: S = 2 and three records in two segments: the first and the
\* third are indexed, the third as the record at offset 0 of segment 1; the
\* second is not.
C18_Witness ==
    /\ lsm.sparse_offset = 2
    /\ Len(lsm.segments) = 2
    /\ Len(Concat(lsm.segments)) = 3
    /\ DOMAIN lsm.sparse_memory_index
          = {Concat(lsm.segments)[1].key, Concat(lsm.segments)[3].key}
    /\ lsm.sparse_memory_index[Concat(lsm.segments)[3].key] = <<0, 1>>

\* read(key) returns None without looking into a segment: the memtable does
\* not hold key and no key of the sparse index is <= key.
EarlyReturn(key) ==
    /\ ~ IsSome(Memtable_get(lsm.memtable, key))
    /\ ~ IsSome(closest_key(lsm.sparse_memory_index, key))

\* C19 (soundness of the early return of read): whenever read(key) returns
\* early no segment holds a record of key; and whenever the engine has a
\* segment, the least key its segments hold is in the sparse index.
C19_EarlyReturnSound ==
    /\ \A k \in Keys : EarlyReturn(k) => ~ InSegments(k)
    /\ lsm.segments # <<>> =>
          \E k \in DOMAIN lsm.sparse_memory_index :
              /\ InSegments(k)
              /\ \A o \in KeysOf(Concat(lsm.segments)) : k <= o

\* C19 witness: S = 2, two records or more in the segments, and a read that
\* returns early for a key below the least key of the segments.
C19_Witness ==
    /\ lsm.sparse_offset = 2
    /\ Len(Concat(lsm.segments)) >= 2
    /\ \E k \in Keys :
          /\ EarlyReturn(k)
          /\ \A o \in KeysOf(Concat(lsm.segments)) : k < o
          /\ read(lsm, k) = None

\* delete(key) and write(key, TOMBSTONE) called on the engine as it is return
\* alike, both flush or neither does, and they leave the same memtable, the
\* same segments, the same sparse index and the same answer to every read.
DeleteAsWrite(key) ==
    LET d == delete(World, key)
        w == write(World, key, TOMBSTONE_VALUE)
    IN  /\ d.ok = w.ok
        /\ (d.now > now) = (w.now > now)
        /\ d.e.memtable = w.e.memtable
        /\ d.e.segments = w.e.segments
        /\ d.e.sparse_memory_index = w.e.sparse_memory_index
        /\ \A k \in Keys : read(d.e, k) = read(w.e, k)

\* C20 (delete is write of the tombstone): from every engine state and for
\* every key, delete(k) and write(k, TOMBSTONE) have the same effect on the
\* memtable, the segments and the sparse index, flush under the same
\* condition, and give the same later reads.
C20_DeleteIsTombstoneWrite == \A key \in Keys : DeleteAsWrite(key)

\* C20 witness: a key that reads a value, is not in the full memtable, and
\* whose delete therefore flushes and merges: the segments change, the key
\* reads None afterwards, and write(k, TOMBSTONE) does the same.
C20_Witness ==
    \E key \in Keys :
        /\ IsSome(read(lsm, key))
        /\ at_capacity(lsm.memtable)
        /\ ~ IsSome(Memtable_get(lsm.memtable, key))
        /\ delete(World, key).now > now
        /\ delete(World, key).e.segments # lsm.segments
        /\ read(delete(World, key).e, key) = None
        /\ DeleteAsWrite(key)

\* C21 (WAL history): on an engine with a WAL whose write and delete calls all
\* returned Ok, the records of the WAL file are the calls, one record each, in
\* call order: (k, v) for write(k, v) and (k, TOMBSTONE) for delete(k).
C21_WalHistory ==
    (IsSome(lsm.wal) /\ ~ IsSome(e1_reads) /\ result = "ok") =>
        files[Unwrap(lsm.wal)] = calls

\* C22 (WAL before memtable): a write or delete whose WAL append fails returns
\* the error and leaves the engine (memtable, segments, sparse index) as it
\* was; a write or delete that changes the engine has appended its record to
\* the WAL, where it is the last record.
C22_WalBeforeMemtable ==
    [][nops' # nops =>
          /\ fault' \in {"write_persist", "delete_persist"} =>
                 result' = "io" /\ lsm' = lsm
          /\ lsm' # lsm =>
                 /\ Len(files'[Unwrap(lsm.wal)]) > Len(files[Unwrap(lsm.wal)])
                 /\ files'[Unwrap(lsm.wal)][Len(files'[Unwrap(lsm.wal)])]
                        = calls'[Len(calls')]]_vars

\* A write or delete failed at its WAL append, on an engine holding a key in
\* its memtable and a segment: the call is missing from the WAL.
C22_Witness ==
    /\ fault = "write_persist"
    /\ lsm.segments # <<>>
    /\ lsm.memtable.kv_table # <<>>
    /\ Len(files[Unwrap(lsm.wal)]) < Len(calls)

\* C25 (failure during flush): a write whose flush fails at a segment write
\* returns the error and leaves the memtable empty, without the pair being
\* written; the segments list and the sparse index are as they were (the
\* partial segment is not added, no merge pass runs: the file of the flushed
\* segment is the only one created).
C25_FlushFailure ==
    [][fault' = "flush_write" =>
          /\ result' = "io"
          /\ lsm.memtable.kv_table # <<>>
          /\ lsm'.memtable.kv_table = <<>>
          /\ lsm'.segments = lsm.segments
          /\ lsm'.sparse_memory_index = lsm.sparse_memory_index
          /\ now' = now + 1]_vars

\* A flush has failed on an engine that holds segments and an index: the
\* memtable is empty and the call is in the WAL.
C25_Witness ==
    /\ fault = "flush_write"
    /\ lsm.segments # <<>>
    /\ lsm.sparse_memory_index # <<>>
    /\ lsm.memtable.kv_table = <<>>
    /\ files[Unwrap(lsm.wal)] # <<>>

\* The engine a fresh LSMEngine::new of the configuration of lsm becomes when
\* it receives the records of log as writes, in log order.
FreshReplay(log) ==
    replay([e |-> LSMEngine_new(Unwrap(config)[1], Unwrap(config)[2], Unwrap(config)[3], None),
            files |-> files, now |-> 0, fail |-> "none"], log).e

JustRecovered == IsSome(replayed) /\ Len(calls) = Unwrap(replayed).calls

\* C23 (recover_from resets the engine to the log): when recover_from has
\* returned, every key reads on the engine what it reads on a fresh engine of
\* the same configuration that received the records of the log as writes.
C23_RecoverResets ==
    (JustRecovered /\ result = "ok") =>
        \A k \in Keys : read(lsm, k) = read(FreshReplay(Unwrap(replayed).log), k)

\* C24 (recover_from does not re-log the replay and adopts the log): when
\* recover_from has returned, the log file holds what it held at the call and
\* is the WAL of the engine; every later write or delete leaves the records of
\* the log file in place and appends its record after them.
C24_LogAdopted ==
    /\ [](JustRecovered => /\ files[LogFile] = Unwrap(replayed).log
                           /\ lsm.wal = Some(LogFile))
    /\ [][(IsSome(replayed) /\ nops' # nops) =>
              /\ lsm'.wal = Some(LogFile)
              /\ Len(files'[LogFile]) > Len(files[LogFile])
              /\ \A i \in 1..Len(files'[LogFile]) :
                     files'[LogFile][i] = IF i <= Len(files[LogFile])
                                          THEN files[LogFile][i]
                                          ELSE calls'[Len(calls')]]_vars

\* An engine with a WAL of its own, segments and a memtable entry has
\* recovered from a log of two records, and a write was made since: the log
\* file holds three records.
C24_Witness ==
    /\ IsSome(replayed)
    /\ Len(Unwrap(replayed).log) = MaxLogLen
    /\ Unwrap(replayed).calls > 0
    /\ files[WalFile] # <<>>
    /\ Len(calls) > Unwrap(replayed).calls
    /\ Len(files[LogFile]) > MaxLogLen
    /\ lsm.segments # <<>>

\* C26 (UnsortedWrite is unreachable through the engine): no write, delete or
\* recover_from call returns UnsortedWrite.
C26_NoUnsortedWrite == result # "unsorted"

\* A recovery has replayed a WAL through flushes and merges into an engine of
\* several segments, and returned Ok.
C26_Witness ==
    /\ IsSome(e1_reads)
    /\ Len(lsm.segments) >= 2
    /\ lsm.memtable.kv_table # <<>>
    /\ result = "ok"

====
